---- MODULE Spec2Model ----
(***************************************************************************)
(* Model of cfw-language-redirector: a Cloudflare worker that redirects a  *)
(* request to a language-prefixed URL.  Three deployed variants are        *)
(* modelled:                                                               *)
(*   "index"   src/index.js            handler only, no cache              *)
(*   "config"  src/config.js:17-195    handler behind a cache keyed by URL *)
(*   "part001" src/unnamed/part_001    currency cookie + cache keyed by    *)
(*                                     URL and detected language           *)
(* Text (paths, language tags, header entries) is modelled as sequences of *)
(* one-character strings so that split, toLowerCase and the regular        *)
(* expressions are computed the way the code computes them.                *)
(***************************************************************************)
EXTENDS Integers, Sequences, FiniteSets, TLC

(***************************************************************************)
(* Bounds of the model.                                                    *)
(***************************************************************************)
\* longest Accept-Language header, in entries, drawn for detectLanguage
MaxEntries == 3
\* most cache puts registered with event.waitUntil and not yet completed
MaxPending == 2
\* most entries the cache store holds before it evicts one
MaxCache == 1

(***************************************************************************)
(* Text helpers.                                                           *)
(***************************************************************************)
\* String.prototype.toLowerCase on one character
LowerChar(c) ==
    CASE c = "A" -> "a" [] c = "B" -> "b" [] c = "C" -> "c" [] c = "D" -> "d"
      [] c = "E" -> "e" [] c = "F" -> "f" [] c = "G" -> "g" [] c = "H" -> "h"
      [] c = "I" -> "i" [] c = "J" -> "j" [] c = "K" -> "k" [] c = "L" -> "l"
      [] c = "M" -> "m" [] c = "N" -> "n" [] c = "O" -> "o" [] c = "P" -> "p"
      [] c = "Q" -> "q" [] c = "R" -> "r" [] c = "S" -> "s" [] c = "T" -> "t"
      [] c = "U" -> "u" [] c = "V" -> "v" [] c = "W" -> "w" [] c = "X" -> "x"
      [] c = "Y" -> "y" [] c = "Z" -> "z" [] OTHER -> c

\* String.prototype.toUpperCase on one character
UpperChar(c) ==
    CASE c = "a" -> "A" [] c = "b" -> "B" [] c = "c" -> "C" [] c = "d" -> "D"
      [] c = "e" -> "E" [] c = "f" -> "F" [] c = "g" -> "G" [] c = "h" -> "H"
      [] c = "i" -> "I" [] c = "j" -> "J" [] c = "k" -> "K" [] c = "l" -> "L"
      [] c = "m" -> "M" [] c = "n" -> "N" [] c = "o" -> "O" [] c = "p" -> "P"
      [] c = "q" -> "Q" [] c = "r" -> "R" [] c = "s" -> "S" [] c = "t" -> "T"
      [] c = "u" -> "U" [] c = "v" -> "V" [] c = "w" -> "W" [] c = "x" -> "X"
      [] c = "y" -> "Y" [] c = "z" -> "Z" [] OTHER -> c

toLowerCase(s) == [i \in 1..Len(s) |-> LowerChar(s[i])]

toUpperCase(s) == [i \in 1..Len(s) |-> UpperChar(s[i])]

\* [a-zA-Z]
IsLetter(c) == LowerChar(c) # c \/ UpperChar(c) # c

\* String.prototype.split(sep) for a one-character separator: "/a/b" gives
\* <<"", "a", "b">>, and a string without the separator gives one piece.
RECURSIVE split(_, _)
split(s, sep) ==
    IF \E i \in 1..Len(s) : s[i] = sep
    THEN LET i == CHOOSE k \in 1..Len(s) :
                      s[k] = sep /\ \A j \in 1..(k - 1) : s[j] # sep
         IN  <<SubSeq(s, 1, i - 1)>> \o split(SubSeq(s, i + 1, Len(s)), sep)
    ELSE <<s>>

\* s has t at position i
HasAt(s, t, i) ==
    /\ i >= 1
    /\ i + Len(t) - 1 <= Len(s)
    /\ SubSeq(s, i, i + Len(t) - 1) = t

(***************************************************************************)
(* Configuration (src/config.js:1-15).                                     *)
(***************************************************************************)
default_language == <<"e", "n">>

supported_languages ==
    << <<"d", "e">>, <<"e", "s">>, <<"f", "r">>, <<"d", "e">>, <<"p", "t">>,
       <<"i", "t">>, <<"n", "l">>, <<"r", "o">>, <<"h", "u">>, <<"l", "t">>,
       <<"e", "n">> >>

\* pick's "no language": null
NoLanguage == <<>>

(***************************************************************************)
(* Accept-Language negotiation.                                            *)
(* A header is a sequence of entries in the order they are written; an     *)
(* entry is [code, region, q]: "en-GB;q=0.8" is                            *)
(* [code |-> <<"e","n">>, region |-> <<"G","B">>, q |-> 8], q in tenths.   *)
(***************************************************************************)
\* position of entry i of h once the entries are sorted by quality,
\* highest first, entries of equal quality keeping their written order
Rank(h, i) ==
    1 + Cardinality({j \in 1..Len(h) :
                        \/ h[j].q > h[i].q
                        \/ h[j].q = h[i].q /\ j < i})

\* accept-language-parser parse(): the entries sorted by quality
parse(h) ==
    [r \in 1..Len(h) |-> h[CHOOSE i \in 1..Len(h) : Rank(h, i) = r]]

\* a supported tag "xx" or "xx-YY" as pick splits it
SupportedCode(tag) == split(tag, "-")[1]

SupportedRegion(tag) ==
    IF Len(split(tag, "-")) >= 2 THEN split(tag, "-")[2] ELSE <<>>

\* pick's test of one header entry against one supported tag (not loose):
\* the codes are equal and the entry's region, if any, is the tag's region
Matches(e, tag) ==
    /\ toLowerCase(e.code) = toLowerCase(SupportedCode(tag))
    /\ \/ e.region = <<>>
       \/ toLowerCase(e.region) = toLowerCase(SupportedRegion(tag))

\* accept-language-parser pick(supported, header): the first supported tag
\* matched by the best entry that matches any, or null
pick(supported, h) ==
    LET p    == parse(h)
        hits == {i \in 1..Len(p) : \E j \in 1..Len(supported) : Matches(p[i], supported[j])}
    IN  IF hits = {} THEN NoLanguage
        ELSE LET i == CHOOSE k \in hits : \A m \in hits : k <= m
                 j == CHOOSE k \in 1..Len(supported) :
                          /\ Matches(p[i], supported[k])
                          /\ \A m \in 1..(k - 1) : ~Matches(p[i], supported[m])
             IN  supported[j]

\* the entry is written with the shape /([a-zA-Z]{2})-[a-zA-Z]{2}/ matches
HasRegionShape(e) ==
    /\ Len(e.code) >= 2
    /\ IsLetter(e.code[Len(e.code)]) /\ IsLetter(e.code[Len(e.code) - 1])
    /\ Len(e.region) >= 2
    /\ IsLetter(e.region[1]) /\ IsLetter(e.region[2])

\* what replace(/([a-zA-Z]{2})-[a-zA-Z]{2}/, '$1') leaves of a matched entry:
\* the hyphen and the two letters after it are removed
StripEntry(e) ==
    [e EXCEPT !.code = e.code \o SubSeq(e.region, 3, Len(e.region)),
              !.region = <<>>]

\* header.replace(/([a-zA-Z]{2})-[a-zA-Z]{2}/, '$1'): the regular expression
\* has no g flag, so only the first match in the written header is replaced
replaceRegion(h) ==
    IF \E i \in 1..Len(h) : HasRegionShape(h[i])
    THEN LET i == CHOOSE k \in 1..Len(h) :
                      HasRegionShape(h[k]) /\ \A j \in 1..(k - 1) : ~HasRegionShape(h[j])
         IN  [h EXCEPT ![i] = StripEntry(h[i])]
    ELSE h

\* request.headers for Accept-Language: has |-> headers.has('Accept-Language'),
\* value |-> the entries of headers.get('Accept-Language')
NoHeader == [has |-> FALSE, value |-> <<>>]

Header(h) == [has |-> TRUE, value |-> h]

\* a plausible slip: regions are stripped before the first pass
detectLanguage_stripFirst(headers) ==
    IF ~headers.has THEN default_language
    ELSE LET language == pick(supported_languages, replaceRegion(headers.value))
         IN  IF language = NoLanguage THEN default_language ELSE language

\* detectLanguage (src/unnamed/part_001:77-102)
detectLanguage(headers) ==
    IF ~headers.has THEN default_language
    ELSE LET first    == pick(supported_languages, headers.value)
             language == IF first = NoLanguage \/ first = default_language
                         THEN pick(supported_languages, replaceRegion(headers.value))
                         ELSE first
         IN  IF language = NoLanguage THEN default_language ELSE language

(***************************************************************************)
(* The pipeline's checks on the path.  A pathname is the characters of     *)
(* url.pathname; scheme, host and query are the same for every request.    *)
(***************************************************************************)
MediaExtensions ==
    { <<"p", "n", "g">>, <<"j", "p", "e", "g">>, <<"j", "p", "g">>,
      <<"w", "e", "b", "p">>, <<"m", "p", "4">> }

\* /\.(png|jpeg|jpg|webp|mp4)([?\/].*)?$/i .test(pathname)
mediaRegex(pathname) ==
    \E i \in 1..Len(pathname) : \E ext \in MediaExtensions :
        /\ pathname[i] = "."
        /\ HasAt(toLowerCase(pathname), ext, i + 1)
        /\ \/ i + Len(ext) = Len(pathname)
           \/ pathname[i + Len(ext) + 1] \in {"?", "/"}

\* /^\/wp-/ .test(pathname)
wpRegex(pathname) == HasAt(pathname, <<"/", "w", "p", "-">>, 1)

\* the already-prefixed test: urlArray.length > 2 and the first part equals a
\* supported language, case-insensitively (src/unnamed/part_001:124-133)
hasLanguagePrefix(pathname) ==
    LET urlArray == split(pathname, "/")
    IN  /\ Len(urlArray) > 2
        /\ \E i \in 1..Len(supported_languages) :
              toLowerCase(supported_languages[i]) = toLowerCase(urlArray[2])

\* config.listen_on_paths (src/config.js:8), a pattern being its segments:
\* '/' has none and '/*' has the one segment *
listen_on_paths == << <<>>, << <<"*">> >> >>

\* the segments of a pathname, the empty ones left by slashes dropped
Segments(pathname) ==
    SelectSeq(split(pathname, "/"), LAMBDA seg : seg # <<>>)

\* url-matcher matchPattern(pattern, pathname) with remainingPathname === '':
\* a literal matches its segment, * exactly one segment, ** the rest
RECURSIVE matchPattern(_, _)
matchPattern(pattern, segs) ==
    IF pattern = <<>> THEN segs = <<>>
    ELSE IF Head(pattern) = <<"*", "*">> THEN Len(pattern) = 1
    ELSE /\ segs # <<>>
         /\ \/ Head(pattern) = <<"*">>
            \/ toLowerCase(Head(pattern)) = toLowerCase(Head(segs))
         /\ matchPattern(Tail(pattern), Tail(segs))

\* the route loop: some configured path matches the whole pathname
routeMatches(pathname) ==
    \E i \in 1..Len(listen_on_paths) :
        matchPattern(listen_on_paths[i], Segments(pathname))

(***************************************************************************)
(* Responses.  kind "origin" is what fetch(request) returned, "redirect"   *)
(* what redirectWithPrefix built, "error" an exception leaving the worker. *)
(* fetch is the number of the origin fetch, within the handling of one     *)
(* request, that produced an origin response.  setCookie lists the         *)
(* currencies of the woocs_curr Set-Cookie headers, in order.              *)
(***************************************************************************)
CACHE_EXPIRATION == 60 * 60

ErrorResponse ==
    [kind |-> "error", status |-> 0, location |-> <<>>, maxAge |-> 0,
     setCookie |-> <<>>, fetch |-> 0]

\* what fetch(request) gives for the n-th origin fetch with outcome out:
\* out.ok is false when the fetch rejects
fetch(n, out) ==
    IF out.ok
    THEN [kind |-> "origin", status |-> out.status, location |-> <<>>,
          maxAge |-> 0, setCookie |-> <<>>, fetch |-> n]
    ELSE ErrorResponse

\* a plausible slip: the language is put after the path
redirectWithPrefix_appended(pathname, prefix) ==
    [kind |-> "redirect", status |-> 302,
     location |-> pathname \o <<"/">> \o prefix,
     maxAge |-> CACHE_EXPIRATION, setCookie |-> <<>>, fetch |-> 0]

\* redirectWithPrefix (src/unnamed/part_001:203-213, src/config.js:185-195)
redirectWithPrefix(pathname, prefix) ==
    [kind |-> "redirect", status |-> 302,
     location |-> <<"/">> \o prefix \o pathname,
     maxAge |-> CACHE_EXPIRATION, setCookie |-> <<>>, fetch |-> 0]

\* redirectWithPrefix (src/index.js:136-145): no Cache-Control
redirectWithPrefix_index(pathname, prefix) ==
    [kind |-> "redirect", status |-> 302,
     location |-> <<"/">> \o prefix \o pathname,
     maxAge |-> 0, setCookie |-> <<>>, fetch |-> 0]

\* the response is a redirect built by redirectWithPrefix
IsRedirectResponse(resp) == resp.kind = "redirect"

\* no trial fetch was made
NoTrial == [made |-> FALSE, ok |-> FALSE, status |-> 0]

Trial(out) == [made |-> TRUE, ok |-> out.ok, status |-> out.status]

\* what a handler run leaves: its response, the origin fetches it made and
\* its trial fetch
Outcome(resp, fetches, trial) ==
    [resp |-> resp, fetches |-> fetches, trial |-> trial]

(***************************************************************************)
(* Currency (src/unnamed/part_001:215-316).  Cookie headers, country codes *)
(* and currency codes are character sequences; << >> is the empty string,  *)
(* null or undefined, all of which the code treats as false.               *)
(***************************************************************************)
\* String.prototype.trim
RECURSIVE trim(_)
trim(s) ==
    IF s # <<>> /\ Head(s) = " " THEN trim(Tail(s))
    ELSE IF s # <<>> /\ s[Len(s)] = " " THEN trim(SubSeq(s, 1, Len(s) - 1))
    ELSE s

\* rest.join('=')
RECURSIVE join(_, _)
join(pieces, sep) ==
    IF pieces = <<>> THEN <<>>
    ELSE IF Len(pieces) = 1 THEN pieces[1]
    ELSE pieces[1] \o <<sep>> \o join(Tail(pieces), sep)

\* parseCookies: the [name, value] pairs of the Cookie header, in order
parseCookies(cookieHeader) ==
    LET cookie == split(cookieHeader, ";")
    IN  [i \in 1..Len(cookie) |->
            LET parts == split(trim(cookie[i]), "=")
            IN  [name |-> parts[1], value |-> join(Tail(parts), "=")]]

\* cookies[name] of the object parseCookies builds: a later pair of the same
\* name replaces an earlier one
cookieValue(cookies, name) ==
    LET at == {i \in 1..Len(cookies) : cookies[i].name = name}
    IN  IF at = {} THEN <<>>
        ELSE cookies[CHOOSE i \in at : \A j \in at : j <= i].value

woocs_curr == <<"w", "o", "o", "c", "s", "_", "c", "u", "r", "r">>

\* the table of mapCountryToCurrency, as <<country, currency>> pairs
countryToCurrency ==
    {
      <<<<"A", "U">>, <<"A", "U", "D">>>>, <<<<"U", "S">>, <<"U", "S", "D">>>>,
      <<<<"C", "A">>, <<"C", "A", "D">>>>, <<<<"G", "B">>, <<"G", "B", "P">>>>,
      <<<<"E", "U">>, <<"E", "U", "R">>>>, <<<<"A", "E">>, <<"A", "E", "D">>>>,
      <<<<"A", "R">>, <<"A", "R", "S">>>>, <<<<"B", "R">>, <<"B", "R", "L">>>>,
      <<<<"C", "H">>, <<"C", "H", "F">>>>, <<<<"C", "R">>, <<"C", "R", "C">>>>,
      <<<<"C", "Z">>, <<"C", "Z", "K">>>>, <<<<"D", "K">>, <<"D", "K", "K">>>>,
      <<<<"I", "D">>, <<"I", "D", "R">>>>, <<<<"J", "P">>, <<"J", "P", "Y">>>>,
      <<<<"N", "Z">>, <<"N", "Z", "D">>>>, <<<<"P", "L">>, <<"P", "L", "N">>>>,
      <<<<"S", "A">>, <<"S", "A", "R">>>>, <<<<"S", "E">>, <<"S", "E", "K">>>>,
      <<<<"S", "G">>, <<"S", "G", "D">>>>, <<<<"V", "E">>, <<"V", "E", "F">>>>,
      <<<<"Z", "A">>, <<"Z", "A", "R">>>>, <<<<"A", "T">>, <<"E", "U", "R">>>>,
      <<<<"B", "E">>, <<"E", "U", "R">>>>, <<<<"C", "Y">>, <<"E", "U", "R">>>>,
      <<<<"D", "E">>, <<"E", "U", "R">>>>, <<<<"E", "E">>, <<"E", "U", "R">>>>,
      <<<<"E", "S">>, <<"E", "U", "R">>>>, <<<<"F", "I">>, <<"E", "U", "R">>>>,
      <<<<"F", "R">>, <<"E", "U", "R">>>>, <<<<"G", "R">>, <<"E", "U", "R">>>>,
      <<<<"I", "E">>, <<"E", "U", "R">>>>, <<<<"I", "T">>, <<"E", "U", "R">>>>,
      <<<<"L", "T">>, <<"E", "U", "R">>>>, <<<<"L", "U">>, <<"E", "U", "R">>>>,
      <<<<"L", "V">>, <<"E", "U", "R">>>>, <<<<"M", "T">>, <<"E", "U", "R">>>>,
      <<<<"N", "L">>, <<"E", "U", "R">>>>, <<<<"P", "T">>, <<"E", "U", "R">>>>,
      <<<<"S", "I">>, <<"E", "U", "R">>>>, <<<<"S", "K">>, <<"E", "U", "R">>>>,
      <<<<"C", "C">>, <<"A", "U", "D">>>>, <<<<"C", "X">>, <<"A", "U", "D">>>>,
      <<<<"N", "F">>, <<"A", "U", "D">>>>, <<<<"A", "S">>, <<"U", "S", "D">>>>,
      <<<<"G", "U">>, <<"U", "S", "D">>>>, <<<<"M", "P">>, <<"U", "S", "D">>>>,
      <<<<"P", "R">>, <<"U", "S", "D">>>>, <<<<"U", "M">>, <<"U", "S", "D">>>>,
      <<<<"V", "I">>, <<"U", "S", "D">>>>
    }

\* the default of getCurrencyFromCountry's fallback parameter, used because
\* config.default_currency is not set in src/config.js
fallbackCurrency == <<"U", "S", "D">>

\* getCurrencyFromCountry (src/unnamed/part_001:309-316)
getCurrencyFromCountry(cfCountry, fallback) ==
    LET code == toUpperCase(cfCountry)
        rows == {row \in countryToCurrency : row[1] = code}
    IN  IF rows = {} THEN fallback ELSE (CHOOSE row \in rows : TRUE)[2]

\* mapCountryToCurrency (src/unnamed/part_001:234-300)
mapCountryToCurrency(countryCode) ==
    getCurrencyFromCountry(countryCode, fallbackCurrency)

\* currency as handleRequest has it at the cache lookup
\* (src/unnamed/part_001:23-35)
currencyOf(request) ==
    LET currency == cookieValue(parseCookies(request.cookie), woocs_curr)
    IN  IF currency = <<>> /\ request.country # <<>>
        THEN mapCountryToCurrency(request.country)
        ELSE currency

\* cookieExists = !!cookies.woocs_curr (src/unnamed/part_001:29)
cookieExists(request) ==
    cookieValue(parseCookies(request.cookie), woocs_curr) # <<>>

(***************************************************************************)
(* The handler.  A request is [method, pathname, headers, cookie,          *)
(* country]; config holds the three flags of src/config.js:10-14; trial    *)
(* and final are the outcomes [ok, status] the origin gives the trial      *)
(* fetch and the passthrough fetch, should the handler make them.          *)
(***************************************************************************)
ReadMethods == {"GET", "HEAD"}

\* a plausible slip: /wp- paths are not excluded
skipPath_mediaOnly(pathname) == mediaRegex(pathname)

\* the media and /wp- test (src/unnamed/part_001:115-118, src/config.js:66-70)
skipPath(pathname) == mediaRegex(pathname) \/ wpRegex(pathname)

\* handleThis after the route loop (src/unnamed/part_001:145-163)
handleThis(config, pathname) ==
    config.listen_on_all_paths \/ routeMatches(pathname)

\* a plausible slip: the origin is asked before the redirect is answered
languageDecision_probed(pathname, language, fetches, trial, final) ==
    IF language = default_language
    THEN Outcome(fetch(fetches + 1, final), fetches + 1, trial)
    ELSE Outcome(redirectWithPrefix(pathname, language), fetches + 1, trial)

\* a plausible slip: the default language is redirected to as well
languageDecision_always(pathname, language, fetches, trial, final) ==
    Outcome(redirectWithPrefix(pathname, language), fetches, trial)

\* the end of handler (src/unnamed/part_001:189-194): pass the default
\* language through, redirect any other
languageDecision(pathname, language, fetches, trial, final) ==
    IF language = default_language
    THEN Outcome(fetch(fetches + 1, final), fetches + 1, trial)
    ELSE Outcome(redirectWithPrefix(pathname, language), fetches, trial)

\* a plausible slip: the request is fetched again instead of returning res
trialResponse_refetch(trial, final) == Outcome(fetch(2, final), 2, Trial(trial))

\* return res (src/unnamed/part_001:177, src/config.js:133)
trialResponse(trial, final) == Outcome(fetch(1, trial), 1, Trial(trial))

\* handler (src/unnamed/part_001:104-195)
handler(config, request, detectedLanguage, trial, final) ==
    IF request.method \notin ReadMethods
    THEN Outcome(fetch(1, final), 1, NoTrial)
    ELSE IF skipPath(request.pathname)
    THEN Outcome(fetch(1, final), 1, NoTrial)
    ELSE IF ~config.listen_on_prefixed_paths /\ hasLanguagePrefix(request.pathname)
    THEN Outcome(fetch(1, final), 1, NoTrial)
    ELSE IF handleThis(config, request.pathname)
    THEN languageDecision(request.pathname, detectedLanguage, 0, NoTrial, final)
    ELSE IF ~config.always_on_not_found
    THEN Outcome(fetch(1, final), 1, NoTrial)
    ELSE IF trial.ok /\ trial.status # 404
    THEN trialResponse(trial, final)
    ELSE languageDecision(request.pathname, detectedLanguage, 1, Trial(trial), final)

\* handler (src/config.js:55-177): the same pipeline, negotiating the
\* language itself after the scope decision
handler_config(config, request, trial, final) ==
    IF request.method \notin ReadMethods
    THEN Outcome(fetch(1, final), 1, NoTrial)
    ELSE IF skipPath(request.pathname)
    THEN Outcome(fetch(1, final), 1, NoTrial)
    ELSE IF ~config.listen_on_prefixed_paths /\ hasLanguagePrefix(request.pathname)
    THEN Outcome(fetch(1, final), 1, NoTrial)
    ELSE IF handleThis(config, request.pathname)
    THEN languageDecision(request.pathname, detectLanguage(request.headers),
                          0, NoTrial, final)
    ELSE IF ~config.always_on_not_found
    THEN Outcome(fetch(1, final), 1, NoTrial)
    ELSE IF trial.ok /\ trial.status # 404
    THEN trialResponse(trial, final)
    ELSE languageDecision(request.pathname, detectLanguage(request.headers),
                          1, Trial(trial), final)

\* the language part of handler in src/index.js:95-128: the retry calls
\* parser.pick, and parser is not defined (only pick is imported), so the
\* retry throws a ReferenceError
languageDecision_index(request, fetches, trial, final) ==
    IF ~request.headers.has
    THEN Outcome(fetch(fetches + 1, final), fetches + 1, trial)
    ELSE LET language == pick(supported_languages, request.headers.value)
         IN  IF language = NoLanguage \/ language = default_language
             THEN Outcome(ErrorResponse, fetches, trial)
             ELSE Outcome(redirectWithPrefix_index(request.pathname, language),
                          fetches, trial)

\* handler (src/index.js:8-128): no media test, and a trial that is not a
\* 404 is answered by fetching the request again
handler_index(config, request, trial, final) ==
    IF request.method \notin ReadMethods
    THEN Outcome(fetch(1, final), 1, NoTrial)
    ELSE IF ~config.listen_on_prefixed_paths /\ hasLanguagePrefix(request.pathname)
    THEN Outcome(fetch(1, final), 1, NoTrial)
    ELSE IF handleThis(config, request.pathname)
    THEN languageDecision_index(request, 0, NoTrial, final)
    ELSE IF ~config.always_on_not_found
    THEN Outcome(fetch(1, final), 1, NoTrial)
    ELSE IF trial.ok /\ trial.status # 404
    THEN Outcome(fetch(2, final), 2, Trial(trial))
    ELSE languageDecision_index(request, 1, Trial(trial), final)

(***************************************************************************)
(* The worker as a state machine.  One fetch event is followed from its    *)
(* arrival to its response; cache puts registered with event.waitUntil     *)
(* stay in pending and complete later, in any order, so a later request    *)
(* can look the cache up before an earlier request's put has landed.       *)
(* The handler touches the cache only at the lookup and through pending,   *)
(* so every interleaving of concurrent requests is reproduced by taking    *)
(* the requests in the order of their lookups.                             *)
(***************************************************************************)
VARIABLES
    variant,          \* which of the three workers is deployed
    config,           \* its configuration flags
    origin,           \* the outcomes the origin may give a fetch
    cache,            \* CACHE: a function from the keys stored to responses
    pending,          \* the puts registered with waitUntil, not yet completed
    pc,               \* "idle", "received", "pipeline", "done", "failed"
    request,          \* the request being handled
    detectedLanguage, \* detectLanguage(request)
    response,         \* what the client received, once pc = "done"
    fetches,          \* origin fetches made for the request
    trial,            \* the trial fetch made for the request, if any
    cacheHit,         \* CACHE.match gave a response
    puts,             \* the puts this request registered, in order
    clients,          \* the requests that may arrive
    earlier           \* an earlier request of a client and its response

vars ==
    <<variant, config, origin, cache, pending, pc, request, detectedLanguage,
      response, fetches, trial, cacheHit, puts, clients, earlier>>

Variants == {"index", "config", "part001"}

\* src/config.js:10-14
DeployedConfig ==
    [listen_on_all_paths |-> FALSE, always_on_not_found |-> TRUE,
     listen_on_prefixed_paths |-> FALSE]

Configs ==
    [listen_on_all_paths : BOOLEAN, always_on_not_found : BOOLEAN,
     listen_on_prefixed_paths : BOOLEAN]

NoResponse ==
    [kind |-> "none", status |-> 0, location |-> <<>>, maxAge |-> 0,
     setCookie |-> <<>>, fetch |-> 0]

NoRequest ==
    [method |-> "none", pathname |-> <<>>, headers |-> NoHeader,
     cookie |-> <<>>, country |-> <<>>]

\* no earlier request is remembered
NoEarlier == [request |-> NoRequest, response |-> NoResponse]

\* what the origin may give a fetch: a response with a status, or a
\* transport error (ok is false)
Answer(st) == [ok |-> TRUE, status |-> st]

TransportError == [ok |-> FALSE, status |-> 0]

\* the origin of the cache machine answers 200 or 404 or fails
FetchOutcomes == {Answer(200), Answer(404), TransportError}

\* the origin the handlers are run against alone also answers 302 and 500
AllFetchOutcomes == FetchOutcomes \cup {Answer(302), Answer(500)}

(***************************************************************************)
(* The requests drawn.                                                     *)
(***************************************************************************)
Entry(code, region, q) == [code |-> code, region |-> region, q |-> q]

en == <<"e", "n">>
de == <<"d", "e">>
fr == <<"f", "r">>
GB == <<"G", "B">>

\* "de", "fr", "en-GB,de;q=0.8", "zz"
HeaderDe == Header(<<Entry(de, <<>>, 10)>>)
HeaderFr == Header(<<Entry(fr, <<>>, 10)>>)
HeaderEnGBDe == Header(<<Entry(en, GB, 10), Entry(de, <<>>, 8)>>)
HeaderZz == Header(<<Entry(<<"z", "z">>, <<>>, 10)>>)

\* "/a" and "/" match a configured route, "/a/b" matches none
PathA == <<"/", "a">>
PathAB == <<"/", "a", "/", "b">>
PathRoot == <<"/">>
\* "/de", "/De/a", "/de/": a language as the only segment, as a prefix in
\* other case, and followed by a slash only
PathDe == <<"/", "d", "e">>
PathDeA == <<"/", "D", "e", "/", "a">>
PathDeSlash == <<"/", "d", "e", "/">>
\* "/wp-a", "/a/b.PNG", "/a/b.jpg/c", "/a/b.jpgx"
PathWp == <<"/", "w", "p", "-", "a">>
PathPng == <<"/", "a", "/", "b", ".", "P", "N", "G">>
PathJpgDir == <<"/", "a", "/", "b", ".", "j", "p", "g", "/", "c">>
PathJpgx == <<"/", "a", "/", "b", ".", "j", "p", "g", "x">>

CookieEUR ==
    <<"w", "o", "o", "c", "s", "_", "c", "u", "r", "r", "=", "E", "U", "R">>
CountryUs == <<"u", "s">>

Request(method, pathname, headers, cookie, country) ==
    [method |-> method, pathname |-> pathname, headers |-> headers,
     cookie |-> cookie, country |-> country]

\* the requests of the cache machine
Requests ==
    {Request(m, p, h, c, g) :
        m \in {"GET", "POST"}, p \in {PathA, PathAB},
        h \in {NoHeader, HeaderDe}, c \in {<<>>, CookieEUR},
        g \in {<<>>, CountryUs}}

\* the requests the handlers are run on alone: every kind of path
HandlerRequests ==
    {Request(m, p, h, <<>>, <<>>) :
        m \in {"GET", "HEAD", "POST"},
        p \in {PathRoot, PathA, PathAB, PathDe, PathDeA, PathDeSlash, PathWp,
               PathPng, PathJpgDir, PathJpgx},
        h \in {NoHeader, HeaderDe, HeaderFr, HeaderEnGBDe, HeaderZz}}

\* the headers detectLanguage is run on alone: every header of at most
\* MaxEntries entries
LangEntries ==
    {Entry(c, r, q) : c \in {en, de, <<"z", "z">>}, r \in {<<>>, GB},
                      q \in {10, 8, 5}}

RECURSIVE SeqsUpTo(_, _)
SeqsUpTo(S, n) ==
    IF n = 0 THEN {<<>>}
    ELSE LET shorter == SeqsUpTo(S, n - 1)
         IN  shorter \cup {Append(h, e) : h \in shorter, e \in S}

LangRequests ==
    {Request("GET", PathA, Header(h), <<>>, <<>>) : h \in SeqsUpTo(LangEntries, MaxEntries)}
        \cup {Request("GET", PathA, NoHeader, <<>>, <<>>)}

(***************************************************************************)
(* handleRequest: the cache in front of the handler.  The cache store is   *)
(* the get(key)/put(key) store of the worker's contract, keyed by the URL  *)
(* of the key request alone.                                               *)
(***************************************************************************)
\* a plausible slip: the key leaves the detected language out
cacheKey_urlOnly(req, language) == req.pathname

\* `${url.toString()}:${detectedLanguage}` (src/unnamed/part_001:38)
cacheKey(req, language) == req.pathname \o <<":">> \o language

\* url.toString() (src/config.js:37)
cacheKey_config(req) == req.pathname

\* headers.append('Set-Cookie', `woocs_curr=${currency}; ...`)
appendSetCookie(resp, currency) ==
    [resp EXCEPT !.setCookie = Append(@, currency)]

\* the cookie is to be set: currency && !cookieExists
\* (src/unnamed/part_001:43, 59)
needsCookie(req) == currencyOf(req) # <<>> /\ ~cookieExists(req)

\* what a cache hit returns (src/unnamed/part_001:41-52)
cachedResponse(req, cached) ==
    IF needsCookie(req) THEN appendSetCookie(cached, currencyOf(req)) ELSE cached

\* finalResponse (src/unnamed/part_001:57-64, 74); an exception thrown by
\* the handler leaves handleRequest as it is
finalResponse(req, resp) ==
    IF resp.kind = "error" THEN resp
    ELSE IF needsCookie(req) THEN appendSetCookie(resp, currencyOf(req))
    ELSE resp

Put(key, resp) == [key |-> key, resp |-> resp]

\* the puts handleRequest registers with event.waitUntil, in order
\* (src/unnamed/part_001:59-72)
cachePuts(req, key, resp) ==
    IF resp.kind = "error" THEN <<>>
    ELSE (IF needsCookie(req) THEN <<Put(key, finalResponse(req, resp))>> ELSE <<>>)
         \o (IF resp.status = 302 THEN <<Put(key, resp)>> ELSE <<>>)

\* a plausible slip: every response of the handler is put
cachePuts_config_every(key, resp) ==
    IF resp.kind # "error" THEN <<Put(key, resp)>> ELSE <<>>

\* the put handleRequest of src/config.js registers (src/config.js:47-50)
cachePuts_config(key, resp) ==
    IF resp.kind # "error" /\ resp.status = 302 THEN <<Put(key, resp)>> ELSE <<>>

Range(f) == {f[i] : i \in DOMAIN f}

\* the cache after put(key, resp) without eviction
Stored(c, key, resp) ==
    [k \in (DOMAIN c) \cup {key} |-> IF k = key THEN resp ELSE c[k]]

Without(c, key) == [k \in (DOMAIN c) \ {key} |-> c[k]]

EmptyCache == [k \in {} |-> NoResponse]

\* the next fetch event is taken up once the last response is delivered
MayArrive == pc = "idle"

\* src/unnamed/part_001:16-52 for the request req: its language and cache
\* key are computed and CACHE.match answers
lookup(req) ==
    /\ \E language \in {detectLanguage(req.headers)} :
          \E key \in {cacheKey(req, language)} :
              /\ request' = req
              /\ detectedLanguage' = language
              /\ IF key \in DOMAIN cache
                 THEN /\ cacheHit' = TRUE
                      /\ response' = cachedResponse(req, cache[key])
                      /\ pc' = "done"
                 ELSE /\ cacheHit' = FALSE
                      /\ response' = NoResponse
                      /\ pc' = "pipeline"
    /\ fetches' = 0
    /\ trial' = NoTrial
    /\ puts' = <<>>
    /\ UNCHANGED <<variant, config, origin, clients, earlier, cache, pending>>

\* src/unnamed/part_001:16-52: a request arrives and is looked up
handleRequest_lookup ==
    /\ variant = "part001"
    /\ MayArrive
    /\ \E req \in clients : lookup(req)

\* src/unnamed/part_001:54-75: the handler runs, the cookie is appended, the
\* puts are registered and the response is returned
handleRequest_pipeline ==
    /\ variant = "part001"
    /\ pc = "pipeline"
    /\ \E t \in origin, f \in origin :
          \E out \in {handler(config, request, detectedLanguage, t, f)} :
              \E newPuts \in {cachePuts(request, cacheKey(request, detectedLanguage),
                                         out.resp)} :
                  /\ Cardinality(pending \cup Range(newPuts)) <= MaxPending
                  /\ pending' = pending \cup Range(newPuts)
                  /\ puts' = newPuts
                  /\ response' = finalResponse(request, out.resp)
                  /\ fetches' = out.fetches
                  /\ trial' = out.trial
    /\ pc' = "done"
    /\ UNCHANGED <<variant, config, origin, clients, earlier, cache, request, detectedLanguage, cacheHit>>

\* src/config.js:32-42 for the request req: CACHE.match answers
lookup_config(req) ==
    /\ request' = req
    /\ detectedLanguage' = detectLanguage(req.headers)
    /\ IF cacheKey_config(req) \in DOMAIN cache
       THEN /\ cacheHit' = TRUE
            /\ response' = cache[cacheKey_config(req)]
            /\ pc' = "done"
       ELSE /\ cacheHit' = FALSE
            /\ response' = NoResponse
            /\ pc' = "pipeline"
    /\ fetches' = 0
    /\ trial' = NoTrial
    /\ puts' = <<>>
    /\ UNCHANGED <<variant, config, origin, clients, earlier, cache, pending>>

\* src/config.js:32-42: a request arrives and is looked up; this worker
\* reads neither the cookie nor the country
handleRequest_config_lookup ==
    /\ variant = "config"
    /\ MayArrive
    /\ \E req \in clients :
          /\ req.cookie = <<>> /\ req.country = <<>>
          /\ lookup_config(req)

\* src/config.js:44-53: the handler runs, a redirect is put and the
\* response is returned
handleRequest_config_pipeline ==
    /\ variant = "config"
    /\ pc = "pipeline"
    /\ \E t \in origin, f \in origin :
          \E out \in {handler_config(config, request, t, f)} :
              \E newPuts \in {cachePuts_config(cacheKey_config(request), out.resp)} :
                  /\ Cardinality(pending \cup Range(newPuts)) <= MaxPending
                  /\ pending' = pending \cup Range(newPuts)
                  /\ puts' = newPuts
                  /\ response' = out.resp
                  /\ fetches' = out.fetches
                  /\ trial' = out.trial
    /\ pc' = "done"
    /\ UNCHANGED <<variant, config, origin, clients, earlier, cache, request, detectedLanguage, cacheHit>>

\* src/index.js:6: a request arrives; the handler is all there is
fetchEvent_index ==
    /\ variant = "index"
    /\ MayArrive
    /\ \E req \in clients :
          /\ req.cookie = <<>> /\ req.country = <<>>
          /\ request' = req
          /\ detectedLanguage' = detectLanguage(req.headers)
    /\ cacheHit' = FALSE
    /\ response' = NoResponse
    /\ pc' = "pipeline"
    /\ fetches' = 0
    /\ trial' = NoTrial
    /\ puts' = <<>>
    /\ UNCHANGED <<variant, config, origin, clients, earlier, cache, pending>>

\* src/index.js:8-128: the handler runs and its response is returned
handler_index_run ==
    /\ variant = "index"
    /\ pc = "pipeline"
    /\ \E t \in origin, f \in origin :
          \E out \in {handler_index(config, request, t, f)} :
              /\ response' = out.resp
              /\ fetches' = out.fetches
              /\ trial' = out.trial
    /\ pc' = "done"
    /\ UNCHANGED <<variant, config, origin, clients, earlier, cache, pending, request, detectedLanguage,
                   cacheHit, puts>>

\* event.respondWith(handleRequest(event)) settles: the client has its
\* response (src/unnamed/part_001:12-14, src/config.js:28-30, src/index.js:6)
respondWith ==
    /\ pc \in {"done", "failed"}
    /\ pc' = "idle"
    /\ request' = NoRequest
    /\ detectedLanguage' = default_language
    /\ response' = NoResponse
    /\ fetches' = 0
    /\ trial' = NoTrial
    /\ cacheHit' = FALSE
    /\ puts' = <<>>
    /\ UNCHANGED <<variant, config, origin, clients, earlier, cache, pending>>

\* a plausible slip: the put is awaited, so it completes before the response
\* is returned
StoreMayChange_awaited == pc \in {"idle", "done"}

\* The store changes between the handling of two requests: a change made
\* while a request is between its lookup and its response is neither read
\* nor overwritten by that request, so it is taken once the response is out.
StoreMayChange == pc = "idle"

\* a put registered with event.waitUntil completes; a full store evicts an
\* entry of its choosing to make room
CachePut ==
    /\ StoreMayChange
    /\ \E p \in pending :
          /\ pending' = pending \ {p}
          /\ IF p.key \in DOMAIN cache \/ Cardinality(DOMAIN cache) < MaxCache
             THEN cache' = Stored(cache, p.key, p.resp)
             ELSE \E victim \in DOMAIN cache :
                      cache' = Stored(Without(cache, victim), p.key, p.resp)
    /\ UNCHANGED <<variant, config, origin, clients, earlier, pc, request, detectedLanguage, response,
                   fetches, trial, cacheHit, puts>>

\* an entry reaches its max-age and leaves the store; a request remembered
\* from before is then no longer within the TTL
CacheExpire ==
    /\ StoreMayChange
    /\ \E key \in DOMAIN cache : cache' = Without(cache, key)
    /\ earlier' = NoEarlier
    /\ UNCHANGED <<variant, config, origin, clients, pending, pc, request, detectedLanguage,
                   response, fetches, trial, cacheHit, puts>>

Quiet ==
    /\ cache = EmptyCache
    /\ pending = {}
    /\ response = NoResponse
    /\ fetches = 0
    /\ trial = NoTrial
    /\ cacheHit = FALSE
    /\ puts = <<>>
    /\ earlier = NoEarlier

\* a worker of one of the three variants, deployed with src/config.js
Init ==
    /\ variant \in Variants
    /\ config = DeployedConfig
    /\ origin = FetchOutcomes
    /\ pc = "idle"
    /\ request = NoRequest
    /\ detectedLanguage = default_language
    /\ clients = Requests
    /\ Quiet

Next ==
    \/ handleRequest_lookup
    \/ handleRequest_pipeline
    \/ handleRequest_config_lookup
    \/ handleRequest_config_pipeline
    \/ fetchEvent_index
    \/ handler_index_run
    \/ respondWith
    \/ CachePut
    \/ CacheExpire

Spec == Init /\ [][Next]_vars

(***************************************************************************)
(* The handlers alone: a worker of any variant and configuration whose     *)
(* first request, of any kind of path, has missed the empty cache.         *)
(***************************************************************************)
InitHandler ==
    /\ variant \in Variants
    /\ config \in Configs
    /\ origin = AllFetchOutcomes
    /\ pc = "pipeline"
    /\ request \in HandlerRequests
    /\ detectedLanguage = detectLanguage(request.headers)
    /\ clients = {request}
    /\ Quiet

NextHandler ==
    \/ handleRequest_pipeline
    \/ handleRequest_config_pipeline
    \/ handler_index_run

SpecHandler == InitHandler /\ [][NextHandler]_vars

(***************************************************************************)
(* detectLanguage on every header of at most MaxEntries entries: the first *)
(* request of a worker, which misses the empty cache and goes through the  *)
(* pipeline.                                                               *)
(***************************************************************************)
\* src/unnamed/part_001:21: const detectedLanguage = detectLanguage(request);
\* the lookup that follows misses, the cache being empty
Negotiate ==
    /\ pc = "received"
    /\ cache = EmptyCache
    /\ detectedLanguage' = detectLanguage(request.headers)
    /\ pc' = "pipeline"
    /\ UNCHANGED <<variant, config, origin, clients, earlier, cache, pending, request, response,
                   fetches, trial, cacheHit, puts>>

InitLang ==
    /\ variant = "part001"
    /\ config = DeployedConfig
    /\ origin = FetchOutcomes
    /\ pc = "received"
    /\ request \in LangRequests
    /\ detectedLanguage = NoLanguage
    /\ clients = {request}
    /\ Quiet

NextLang ==
    \/ Negotiate
    \/ handleRequest_pipeline

SpecLang == InitLang /\ [][NextLang]_vars

(***************************************************************************)
(* The cache-backed workers and one client that is followed: a response of *)
(* its is kept together with the request, and the client may send the same *)
(* request again or follow the redirect it was given.  Here the store may  *)
(* also fail: CACHE.match and CACHE.put may reject.                        *)
(***************************************************************************)
\* the requests of the followed client and of the others
ClientRequests ==
    {Request("GET", p, HeaderDe, <<>>, g) :
        p \in {PathRoot, PathA, PathAB}, g \in {<<>>, CountryUs}}

\* event.respondWith settles and the client keeps what it sent and received
respondWith_kept ==
    /\ pc = "done"
    /\ earlier = NoEarlier
    /\ earlier' = [request |-> request, response |-> response]
    /\ pc' = "idle"
    /\ request' = NoRequest
    /\ detectedLanguage' = default_language
    /\ response' = NoResponse
    /\ fetches' = 0
    /\ trial' = NoTrial
    /\ cacheHit' = FALSE
    /\ puts' = <<>>
    /\ UNCHANGED <<variant, config, origin, clients, cache, pending>>

\* the request a client sends when it follows the redirect resp it was given
\* for req: the Location, with the same method and headers
Followed(req, resp) == [req EXCEPT !.pathname = resp.location]

\* the client follows the redirect it was given: the request for the
\* Location arrives (src/unnamed/part_001:16-52, src/config.js:32-42)
followRedirect ==
    /\ MayArrive
    /\ IsRedirectResponse(earlier.response)
    /\ \E req \in {Followed(earlier.request, earlier.response)} :
          IF variant = "part001" THEN lookup(req) ELSE lookup_config(req)

\* await CACHE.match(cacheKey) rejects (src/unnamed/part_001:39,
\* src/config.js:38): nothing catches it, handleRequest rejects and the
\* client is answered with the worker's error
handleRequest_matchRejects ==
    /\ MayArrive
    /\ \E req \in clients :
          /\ variant = "config" => (req.cookie = <<>> /\ req.country = <<>>)
          /\ request' = req
          /\ detectedLanguage' = detectLanguage(req.headers)
    /\ cacheHit' = FALSE
    /\ response' = ErrorResponse
    /\ pc' = "failed"
    /\ fetches' = 0
    /\ trial' = NoTrial
    /\ puts' = <<>>
    /\ UNCHANGED <<variant, config, origin, clients, earlier, cache, pending>>

\* a put registered with event.waitUntil rejects: the store stays as it is
\* and nobody awaits the promise (src/unnamed/part_001:66, 71,
\* src/config.js:49)
CachePutRejects ==
    /\ StoreMayChange
    /\ \E p \in pending : pending' = pending \ {p}
    /\ UNCHANGED <<variant, config, origin, clients, earlier, cache, pc, request,
                   detectedLanguage, response, fetches, trial, cacheHit, puts>>

InitClient ==
    /\ variant \in {"config", "part001"}
    /\ config = DeployedConfig
    /\ origin = FetchOutcomes
    /\ pc = "idle"
    /\ request = NoRequest
    /\ detectedLanguage = default_language
    /\ clients = ClientRequests
    /\ Quiet

NextClient ==
    \/ handleRequest_lookup
    \/ handleRequest_pipeline
    \/ handleRequest_config_lookup
    \/ handleRequest_config_pipeline
    \/ handleRequest_matchRejects
    \/ respondWith
    \/ respondWith_kept
    \/ followRedirect
    \/ CachePut
    \/ CachePutRejects
    \/ CacheExpire

SpecClient == InitClient /\ [][NextClient]_vars

(***************************************************************************)
(* Properties.                                                             *)
(***************************************************************************)
Done == pc = "done"

IsRedirect(resp) == resp.kind = "redirect"

\* the response is what the n-th origin fetch of this request gave, or the
\* transport error of that fetch
IsOwnFetch(resp, n) ==
    \/ resp.kind = "origin" /\ resp.fetch = n
    \/ resp.kind = "error"

\* the Set-Cookie headers a request's own cookie and country signal call for
OwnSetCookie(req) ==
    IF cookieValue(parseCookies(req.cookie), woocs_curr) # <<>> THEN <<>>
    ELSE IF req.country = <<>> THEN <<>>
    ELSE <<mapCountryToCurrency(req.country)>>

\* C1: in the currency-aware worker, a request that carries a non-empty
\* woocs_curr cookie never receives a response with a Set-Cookie for
\* woocs_curr, from the pipeline or from the cache.
C1_CookieNeverOverwritten ==
    (variant = "part001" /\ Done /\ request.cookie = CookieEUR)
        => response.setCookie = <<>>

\* C2: in the currency-aware worker no stored response carries a Set-Cookie
\* for woocs_curr, and the woocs_curr values set on a response are those the
\* request's own cookie and country signal call for, whatever earlier
\* requests of other clients were.
C2_NoCookieInCache ==
    variant = "part001" =>
        /\ \A key \in DOMAIN cache : cache[key].setCookie = <<>>
        /\ (Done /\ response.kind # "error") =>
               response.setCookie = OwnSetCookie(request)

\* the first segment of the path is a supported language, in any case
FirstSegmentIsLanguage(pathname) ==
    /\ Segments(pathname) # <<>>
    /\ \E i \in 1..Len(supported_languages) :
          toLowerCase(Segments(pathname)[1]) = toLowerCase(supported_languages[i])

\* C3: with listen_on_prefixed_paths false, a GET/HEAD request whose first
\* path segment is a supported language, also when that segment is the
\* whole path, is passed through to the origin and never redirected.
C3_PrefixedPassesThrough ==
    (/\ Done
     /\ ~config.listen_on_prefixed_paths
     /\ request.method \in ReadMethods
     /\ FirstSegmentIsLanguage(request.pathname))
        => ~IsRedirect(response)

\* the paths drawn that end in a media extension, have one followed by a
\* slash, or start with /wp-
MediaOrAdminPaths == {PathWp, PathPng, PathJpgDir}

\* C4: in the cache-backed workers the pipeline forwards a request for a
\* media or /wp- path to the origin exactly once and returns that response:
\* no redirect and no trial fetch, whatever the header and the flags.
C4_MediaAndAdminPassThrough ==
    (/\ Done
     /\ variant \in {"config", "part001"}
     /\ ~cacheHit
     /\ request.pathname \in MediaOrAdminPaths)
        => (/\ fetches = 1
            /\ trial = NoTrial
            /\ ~IsRedirect(response)
            /\ IsOwnFetch(response, 1))

\* C4 witness: a GET for /a/b.PNG that asks for German, under a
\* configuration that listens on all paths, has been passed through
C4_Witness ==
    /\ Done
    /\ variant = "part001"
    /\ request.pathname = PathPng
    /\ request.method = "GET"
    /\ request.headers = HeaderDe
    /\ config.listen_on_all_paths
    /\ response.kind = "origin"

\* C5: in part_001 a request whose method is neither GET nor HEAD receives
\* the origin's response to that request: never a redirect and never a
\* response taken from the cache, whatever earlier requests have stored.
C5_NonReadMethodBypasses ==
    (variant = "part001" /\ Done /\ request.method \notin ReadMethods)
        => (/\ ~cacheHit
            /\ ~IsRedirect(response)
            /\ fetches = 1
            /\ IsOwnFetch(response, 1))

\* two responses that differ at most in which fetch produced them
SameBut(resp, other) == [resp EXCEPT !.fetch = 0] = [other EXCEPT !.fetch = 0]

\* C6: in part_001 with always_on_not_found and without listen_on_all_paths,
\* for a GET/HEAD request outside the routes: a trial fetch answered 404
\* leads to the response a route-matched request would get, and a trial
\* fetch answered with another status is itself the response, with no
\* redirect and no second fetch.
C6_TrialFetchDecides ==
    (/\ Done
     /\ variant = "part001"
     /\ config.always_on_not_found /\ ~config.listen_on_all_paths
     /\ request.method \in ReadMethods
     /\ ~routeMatches(request.pathname)
     /\ trial.made /\ trial.ok)
        => IF trial.status = 404
           THEN \E f \in origin :
                   SameBut(response,
                           handler([config EXCEPT !.listen_on_all_paths = TRUE],
                                   request, detectedLanguage, f, f).resp)
           ELSE /\ response.kind = "origin"
                /\ response.status = trial.status
                /\ response.fetch = 1
                /\ fetches = 1

\* C6 witness: both cases of a trial fetch have happened for /a/b, the 404
\* leading to a redirect
C6_Witness ==
    /\ Done
    /\ variant = "part001"
    /\ config.always_on_not_found /\ ~config.listen_on_all_paths
    /\ request.method = "GET"
    /\ request.pathname = PathAB
    /\ trial.made /\ trial.ok
    /\ \/ trial.status = 404 /\ IsRedirect(response)
       \/ trial.status = 500 /\ response.status = 500

\* C7: when the trial fetch fails with a transport error the request is not
\* promoted: the original request is passed through and no redirect is
\* answered, whatever the Accept-Language header.
C7_FailedTrialPassesThrough ==
    (Done /\ trial.made /\ ~trial.ok)
        => (~IsRedirect(response) /\ IsOwnFetch(response, fetches))

(***************************************************************************)
(* Properties of the negotiation.                                          *)
(***************************************************************************)
\* the header with the region removed from every entry of the xx-YY shape
stripAllRegions(h) ==
    [i \in 1..Len(h) |-> IF HasRegionShape(h[i]) THEN StripEntry(h[i]) ELSE h[i]]

\* the reference negotiator: detectLanguage with every region stripped on
\* the second pass
referenceDetectLanguage(headers) ==
    IF ~headers.has THEN default_language
    ELSE LET first    == pick(supported_languages, headers.value)
             language == IF first = NoLanguage \/ first = default_language
                         THEN pick(supported_languages, stripAllRegions(headers.value))
                         ELSE first
         IN  IF language = NoLanguage THEN default_language ELSE language

IsRegionVariantOf(e, code) == toLowerCase(e.code) = code /\ e.region # <<>>

\* a region variant of the default language is written before a region
\* variant of the non-default supported language de
DefaultVariantPrecedes(h) ==
    \E i \in 1..Len(h) : \E j \in (i + 1)..Len(h) :
        IsRegionVariantOf(h[i], default_language) /\ IsRegionVariantOf(h[j], de)

Negotiated == pc \in {"pipeline", "done"} /\ request.headers.has

\* C8: the second pass strips the region from every xx-YY entry: for a
\* header in which a region variant of the default language precedes one of
\* a non-default supported language, detectLanguage gives what the
\* reference negotiator, which strips every entry, gives.
C8_EveryRegionStripped ==
    (Negotiated /\ DefaultVariantPrecedes(request.headers.value))
        => detectedLanguage = referenceDetectLanguage(request.headers)

\* the entry of h that comes r-th by quality
Ranked(h, r) == parse(h)[r]

\* the best entry is a region variant of the default language and the
\* entry ranked r, of lower quality, is exactly de
BestIsDefaultVariantAndDeAt(h, r) ==
    /\ Len(h) >= 2
    /\ r \in 2..Len(h)
    /\ IsRegionVariantOf(Ranked(h, 1), default_language)
    /\ Ranked(h, r).code = de /\ Ranked(h, r).region = <<>>
    /\ Ranked(h, r).q < Ranked(h, 1).q

\* C9 as claimed: whenever the best entry is a region variant of the
\* default language and a lower-quality entry is exactly de, detectLanguage
\* returns de.
C9_DeAfterDefaultVariant ==
    (Negotiated /\ \E r \in 1..Len(request.headers.value) :
                      BestIsDefaultVariantAndDeAt(request.headers.value, r))
        => detectedLanguage = de

\* the entry matches some supported language as it is written
MatchesSupported(e) ==
    \E j \in 1..Len(supported_languages) : Matches(e, supported_languages[j])

\* C9 amended: whenever the best entry is a region variant of the default
\* language, a lower-quality entry is exactly de, and no entry ranked above
\* that de matches a supported language as written, detectLanguage returns
\* de.
C9_DeAfterDefaultVariantUnlessBetterMatch ==
    (Negotiated /\ \E r \in 1..Len(request.headers.value) :
                      /\ BestIsDefaultVariantAndDeAt(request.headers.value, r)
                      /\ \A k \in 1..(r - 1) :
                            ~MatchesSupported(Ranked(request.headers.value, k)))
        => detectedLanguage = de

\* C9 witness: "en-GB,de;q=0.8" has been negotiated
C9_Witness ==
    /\ Negotiated
    /\ request.headers = HeaderEnGBDe
    /\ detectedLanguage = de

\* no entry matches a supported language, as written or with its region
\* stripped
NoEntryMatches(h) ==
    \A i \in 1..Len(h) :
        ~MatchesSupported(h[i]) /\ ~MatchesSupported(stripAllRegions(h)[i])

PrefixedLocation(req) ==
    <<"/">> \o detectLanguage(req.headers) \o req.pathname

\* C11: every redirect part_001 answers, from the pipeline or from the
\* cache, has status 302, Cache-Control max-age 3600 and the Location made of
\* the request's URL with /<language> inserted in front of the path, the
\* language being the one negotiated from the request's header; so a replay
\* of the request gets the same Location.
C11_RedirectIsFunctionOfUrlAndLanguage ==
    (variant = "part001" /\ Done /\ IsRedirect(response))
        => (/\ response.status = 302
            /\ response.maxAge = 3600
            /\ response.location = PrefixedLocation(request))

\* C11 witness: a redirect to /de/a has been answered from the cache
C11_Witness ==
    /\ variant = "part001"
    /\ Done
    /\ cacheHit
    /\ IsRedirect(response)
    /\ response.location = <<"/", "d", "e", "/", "a">>

\* the request being answered is the one the client sent before
IsReplay == earlier # NoEarlier /\ request = earlier.request

\* C12: when a client sends again, within the TTL, a request whose response
\* it has already received, the second response is identical to the first
\* and no trial fetch is made for the second request.
C12_ReplayIsIdenticalWithoutTrial ==
    (Done /\ IsReplay)
        => (/\ SameBut(response, earlier.response)
            /\ ~trial.made)

\* the two responses have the same status, Location and Set-Cookie headers
SameHeaders(resp, other) ==
    /\ resp.kind = "error" <=> other.kind = "error"
    /\ resp.status = other.status
    /\ resp.location = other.location
    /\ resp.setCookie = other.setCookie

\* what handleRequest of part_001 would return for req without its cache,
\* the origin answering the fetches with t and f
WithoutCache(req, t, f) ==
    finalResponse(req, handler(config, req, detectLanguage(req.headers), t, f).resp)

\* C13: the cache of part_001 is transparent: the response a request
\* receives has the status, Location and Set-Cookie headers of a response
\* the handler without the cache returns for that request, for some answers
\* of the origin.
C13_CacheIsTransparent ==
    (variant = "part001" /\ Done)
        => \E t \in origin, f \in origin :
               SameHeaders(response, WithoutCache(request, t, f))

\* the currency the country signal calls for: the mapping of the upper-cased
\* country code, the default currency for an unmapped or absent country
CurrencyCalledFor(country) ==
    IF country = <<>> THEN fallbackCurrency
    ELSE LET rows == {row \in countryToCurrency : row[1] = toUpperCase(country)}
         IN  IF rows = {} THEN fallbackCurrency
             ELSE (CHOOSE row \in rows : TRUE)[2]

\* C14: a request without a woocs_curr cookie gets from part_001, from the
\* pipeline or the cache, a response with the status it would have without
\* the currency logic and with one Set-Cookie for woocs_curr, whose value is
\* the currency mapped to the upper-cased country, or the default currency
\* when the country is unmapped or absent.
C14_CookieSetFromCountry ==
    (/\ variant = "part001"
     /\ Done
     /\ response.kind # "error"
     /\ ~cookieExists(request))
        => (/\ response.setCookie = <<CurrencyCalledFor(request.country)>>
            /\ \E t \in origin, f \in origin :
                   response.status =
                       handler(config, request, detectedLanguage, t, f).resp.status)

\* C15: within one request the lookup comes before the pipeline, the puts
\* after it, and the response does not wait for them: origin fetches and
\* puts are made only in the step from a missed lookup to the response, the
\* puts carry the response that step produced, and when the response is
\* returned the store is as the lookup found it and every put of the request
\* is still to complete.
C15_LookupPipelinePutInOrder ==
    [][/\ (fetches' > fetches \/ pending' \ pending # {})
           => (pc = "pipeline" /\ ~cacheHit /\ pc' = "done" /\ request' = request)
       /\ \A p \in pending' \ pending :
              /\ p \in Range(puts')
              /\ p.resp \in {response', [response' EXCEPT !.setCookie = <<>>]}
       /\ pc' = "done" => (cache' = cache /\ Range(puts') \subseteq pending')]_vars

\* C15 witness: part_001 has returned a redirect with a fresh cookie while
\* its two puts are still to complete
C15_Witness ==
    /\ variant = "part001"
    /\ Done
    /\ ~cacheHit
    /\ Len(puts) = 2
    /\ Range(puts) \subseteq pending

\* the response is one the workers store: a 302, or in part_001 a response
\* with a freshly set currency cookie
IsStorable(resp) ==
    \/ resp.status = 302
    \/ variant = "part001" /\ resp.setCookie # <<>>

C17_StoreFailureNeverSurfaces ==
    /\ pc = "failed" => (response.kind # "error" /\ fetches > 0)
    /\ (pc \in {"done", "failed"} /\ response.kind = "error") => fetches > 0

\* C18: all puts issued for one key carry equivalent responses (the same
\* status, Location and Set-Cookie headers), the two puts of one request
\* included, so the entry stored does not depend on which put lands last.
C18_PutsForOneKeyAreEquivalent ==
    variant = "part001" =>
        \A p \in pending : \A q \in pending :
            p.key = q.key => SameHeaders(p.resp, q.resp)

\* the request being answered follows the redirect the client was given
IsFollowUp ==
    /\ IsRedirect(earlier.response)
    /\ request = Followed(earlier.request, earlier.response)

\* the paths a redirect is built for
RedirectedPaths ==
    {PathRoot, PathA, PathAB, PathDe, PathDeA, PathDeSlash, PathJpgx}

\* the handler of part_001 answers no redirect to a GET for the Location of
\* the redirect built for the path and the language, whatever the origin
\* answers
LocationPassesThrough(pathname, language) ==
    \A t \in origin, f \in origin :
        ~IsRedirect(handler(config,
                            Request("GET", redirectWithPrefix(pathname, language).location,
                                    NoHeader, <<>>, <<>>),
                            language, t, f).resp)

\* C19: with listen_on_prefixed_paths false, a client that follows a
\* redirect of the worker, sending the same headers to the Location, is not
\* redirected again, whatever the cache holds; and for every path and
\* supported language the pipeline passes the Location of the redirect
\* through, for every answer of the origin.
C19_FollowedRedirectIsNotRedirected ==
    ~config.listen_on_prefixed_paths =>
        /\ (Done /\ IsFollowUp) => ~IsRedirect(response)
        /\ (Done /\ IsRedirect(response)) =>
               LocationPassesThrough(request.pathname, detectedLanguage)
        /\ (pc = "idle" /\ Quiet) =>
               \A pathname \in RedirectedPaths :
                   \A i \in 1..Len(supported_languages) :
                       LocationPassesThrough(pathname, supported_languages[i])

\* C19 witness: the client was redirected from / to /de/ and its request for
\* /de/ has been answered by the origin, in part_001
C19_Witness ==
    /\ variant = "part001"
    /\ Done
    /\ IsFollowUp
    /\ request.pathname = <<"/", "d", "e", "/">>
    /\ response.kind = "origin"

\* the request is in scope by its route, or promoted by a trial fetch that
\* the origin answered 404
RouteMatchedOrPromoted ==
    \/ handleThis(config, request.pathname)
    \/ config.always_on_not_found /\ trial.made /\ trial.ok /\ trial.status = 404

\* the conditions under which the pipeline may redirect
MayRedirect ==
    /\ request.method \in ReadMethods
    /\ ~mediaRegex(request.pathname) /\ ~wpRegex(request.pathname)
    /\ ~config.listen_on_prefixed_paths => ~FirstSegmentIsLanguage(request.pathname)
    /\ RouteMatchedOrPromoted
    /\ request.headers.has
    /\ detectedLanguage # default_language
    /\ \E i \in 1..Len(supported_languages) : supported_languages[i] = detectedLanguage

\* C20: the pipeline of part_001 gives each request one outcome, and it is
\* a 302 only if the method is GET or HEAD, the path is neither a media nor
\* a /wp- path nor language-prefixed, the request is route-matched or
\* promoted, an Accept-Language header is present and the negotiated
\* language is a supported language other than the default; otherwise the
\* outcome is the origin's answer to the request.
C20_RedirectOnlyInScope ==
    (variant = "part001" /\ Done /\ ~cacheHit)
        => IF MayRedirect
           THEN IsRedirect(response) \/ IsOwnFetch(response, fetches)
           ELSE ~IsRedirect(response) /\ IsOwnFetch(response, fetches)

\* the origin fetches handler of part_001 makes for the request under the
\* configuration cfg are as many as the scope decision allows: none for a
\* redirect and one for a passthrough of a request in scope, one and no
\* trial for a request out of scope that is not tried, and never over two
FetchesAsScoped(cfg, req, language, t, f) ==
    LET out == handler(cfg, req, language, t, f)
    IN  /\ out.fetches <= 2
        /\ handleThis(cfg, req.pathname) =>
               /\ ~out.trial.made
               /\ out.fetches = (IF IsRedirect(out.resp) THEN 0 ELSE 1)
        /\ (~handleThis(cfg, req.pathname) /\ ~cfg.always_on_not_found) =>
               (out.fetches = 1 /\ ~out.trial.made)

\* C21: in part_001 a request in scope by its route, or any request when
\* listen_on_all_paths is set, makes no origin fetch for a redirect and one
\* for a passthrough; a cache hit makes none; a request out of scope with
\* always_on_not_found false makes one fetch and no trial; and no request
\* makes more than two.
C21_FetchesPerRequest ==
    (variant = "part001" /\ Done) =>
        /\ fetches <= 2
        /\ cacheHit => (fetches = 0 /\ ~trial.made)
        /\ (~cacheHit /\ handleThis(config, request.pathname)) =>
               /\ ~trial.made
               /\ fetches = (IF IsRedirect(response) THEN 0 ELSE 1)
        /\ ~cacheHit =>
               \A cfg \in Configs : \A t \in origin, f \in origin :
                   FetchesAsScoped(cfg, request, detectedLanguage, t, f)

\* C21 witness: part_001 has answered a GET for the route /a with a redirect
\* built without an origin fetch
C21_Witness ==
    /\ variant = "part001"
    /\ Done
    /\ ~cacheHit
    /\ request.pathname = PathA
    /\ IsRedirect(response)
    /\ fetches = 0

\* the first pass of the negotiation finds no supported language, or finds
\* the default language
FirstPassFallsBack(headers) ==
    /\ headers.has
    /\ pick(supported_languages, headers.value) \in {NoLanguage, default_language}

\* the origin fetches made before the language is decided: the trial, if any
FetchesBeforeDecision == IF trial.made THEN 1 ELSE 0

\* C22: in src/index.js an in-scope GET/HEAD request whose Accept-Language
\* header gives no supported language, or the default language, on the
\* first pass is answered: passed through under the default language or
\* redirected to the language found on the retry; the handler never ends in
\* an error of its own.
C22_NegotiationRetryCompletes ==
    (/\ variant = "index"
     /\ Done
     /\ request.method \in ReadMethods
     /\ RouteMatchedOrPromoted
     /\ FirstPassFallsBack(request.headers))
        => (/\ IsRedirect(response) \/ IsOwnFetch(response, fetches)
            /\ response.kind = "error" => fetches > FetchesBeforeDecision)

\* C23: in src/index.js with always_on_not_found set, when the trial fetch
\* for a request outside the routes is answered with a status other than
\* 404, the client receives that trial response itself, whatever the origin
\* would answer to a later fetch of the request.
C23_TrialResponseReturnedAsIs ==
    (/\ variant = "index"
     /\ Done
     /\ config.always_on_not_found
     /\ trial.made /\ trial.ok /\ trial.status # 404)
        => (/\ response.kind = "origin"
            /\ response.fetch = 1
            /\ response.status = trial.status
            /\ fetches = 1)

\* C24: in src/config.js a redirect served from the cache has the Location
\* built for the language negotiated for the request being served, and a
\* request whose negotiated language is the default, or that has no
\* Accept-Language header, is never answered with a cached redirect.
C24_CachedRedirectMatchesLanguage ==
    (variant = "config" /\ Done /\ cacheHit /\ IsRedirect(response))
        => (/\ detectedLanguage # default_language
            /\ response.location = PrefixedLocation(request))

====
